---- MODULE Spec2Model ----
(***************************************************************************)
(* Model of the scanny character scanner (src/src/scanner.rs): the cursor, *)
(* the one-shot matcher session, the combinator surface and finalize.      *)
(*                                                                         *)
(* A character is a string; Option<T> is a sequence of length 0 (None) or  *)
(* 1 (Some).  A Chars iterator over `whole` is the number of characters it *)
(* has already yielded.                                                    *)
(***************************************************************************)
EXTENDS Integers, Sequences, FiniteSets, TLC

VARIABLES
    whole,      \* Scanny.whole: the buffer, a sequence of characters
    chars,      \* Scanny.chars: the cursor's iterator
    byte_pos,   \* Scanny.byte_pos
    line,       \* Scanny.line
    matcher,    \* Scanny.matcher: Option<Matcher>
    pc,         \* "idle", or the repetition combinator whose loop is running
    lf,         \* the predicate of the running loop
    op,         \* history: the last call (or "<name>_loop" for one loop iteration)
    arg,        \* history: the argument of the last call
    pre,        \* history: chars, byte_pos, line, matcher before the last call
    ret,        \* history: what the last call returned
    calls,      \* history: predicate/classifier invocations made by the last step
    open,       \* history: the cursor when the current/last session was opened
    replay,     \* history: characters a rolled back session had consumed, and
                \*          what the bump calls after the rollback returned
    iters,      \* history: predicate invocations made by the running loop
    loop_rem,   \* history: characters left in the stream when the loop started
    last        \* history: how the session ended that the last call finalized,
                \*          kept across the matcher() calls that follow it

vars == <<whole, chars, byte_pos, line, matcher, pc, lf, op, arg, pre, ret, calls,
          open, replay, iters, loop_rem, last>>

----------------------------------------------------------------------------
(* Bounds and input sets *)

MaxLen == 3

MaxSpecial == 1

MaxPeek == 2

NL == "\n"

Alphabet == {"a", NL, "U+00E9"}

\* the buffers: at most MaxLen characters, at most MaxSpecial of them not "a"
Buffers ==
    {b \in UNION {[1..n -> Alphabet] : n \in 0..MaxLen} :
        Cardinality({i \in DOMAIN b : b[i] # "a"}) <= MaxSpecial}

None == <<>>

Some(x) == <<x>>

\* Fn(char) -> bool / Fn(&char) -> bool closures, as the set they accept
CharPreds == {{"a"}, Alphabet}

\* Fn(Option<char>) -> bool closures, as the set of options they accept
AnyPreds == {{Some("a")}, {None} \cup {Some(c) : c \in Alphabet}}

\* Fn(Self) -> bool closures: what they do with the handle, then their verdict
SelfPreds == {"accept", "reject", "more", "bump_accept", "bump_reject",
              "matched_accept", "matched_reject"}

\* the characters passed to then / then_optional
ThenChars == {"a", NL}

\* the character sets passed to then_any_optional
CharSets == {{"a", "U+00E9"}}

\* the values a classifier passes to consume_on_match / consume_on_not_match
\* (TRUE is also what the flag holds when the classifier does not call it)
Classifiers == [com : BOOLEAN, conm : BOOLEAN]

----------------------------------------------------------------------------
(* Characters, the buffer and its iterators *)

len_utf8(ch) == IF ch = "U+00E9" THEN 2 ELSE 1

RECURSIVE ByteLen(_)
\* encoded length of a sequence of characters
ByteLen(s) == IF s = <<>> THEN 0 ELSE len_utf8(Head(s)) + ByteLen(Tail(s))

\* byte offset of the i-th character boundary of the buffer
ByteOff(i) == ByteLen(SubSeq(whole, 1, i))

\* str::get(lo..hi): None unless lo <= hi <= len and both are char boundaries
StrGet(lo, hi) ==
    LET B == {i \in 0..Len(whole) : ByteOff(i) = lo}
        E == {j \in 0..Len(whole) : ByteOff(j) = hi}
    IN IF lo <= hi /\ B # {} /\ E # {}
       THEN Some(SubSeq(whole, (CHOOSE i \in B : TRUE) + 1, CHOOSE j \in E : TRUE))
       ELSE None

\* Chars::next / Chars::nth on a clone: the option yielded n characters ahead
CharsNth(it, n) == IF it + n + 1 <= Len(whole) THEN Some(whole[it + n + 1]) ELSE None

\* Chars::next: the iterator afterwards
CharsAdvance(it) == IF it < Len(whole) THEN it + 1 ELSE it

----------------------------------------------------------------------------
(* The scanner as a value, so that a predicate can act on the live handle *)

SC == [chars |-> chars, byte_pos |-> byte_pos, line |-> line, matcher |-> matcher]

\* the iterator the lookahead/advance calls read: the session's when one is open
Stream(s) == IF s.matcher # None THEN s.matcher[1].chars ELSE s.chars

next_match(s) == IF s.matcher # None THEN s.matcher[1].match_next ELSE TRUE

\* set_next_match that records the value in a new session when none is open
set_next_match_Open(s, v) ==
    IF s.matcher = None
    THEN [s EXCEPT !.matcher = Some([chars |-> s.chars, byte_pos |-> s.byte_pos,
                                     line |-> s.line, is_matched |-> FALSE,
                                     match_next |-> v])]
    ELSE [s EXCEPT !.matcher = Some([s.matcher[1] EXCEPT !.match_next = v])]

set_next_match(s, v) ==
    IF s.matcher = None THEN s
    ELSE [s EXCEPT !.matcher = Some([s.matcher[1] EXCEPT !.match_next = v])]

\* NewMatcher that starts the session at the start of the buffer
NewMatcher_Origin(s) ==
    [chars |-> 0, byte_pos |-> 0, line |-> 1, is_matched |-> FALSE, match_next |-> TRUE]

NewMatcher(s) ==
    [chars |-> s.chars, byte_pos |-> s.byte_pos, line |-> s.line,
     is_matched |-> FALSE, match_next |-> TRUE]

\* matcherOp without the early return: every call makes a new session
matcherOp_Reopen(s) == [s EXCEPT !.matcher = Some(NewMatcher(s))]

matcherOp(s) ==
    IF s.matcher # None THEN s ELSE [s EXCEPT !.matcher = Some(NewMatcher(s))]

is_matched(s) == IF s.matcher = None THEN FALSE ELSE s.matcher[1].is_matched

\* matched that flips the flag instead of setting it
matched_Toggle(s) ==
    IF s.matcher = None THEN s
    ELSE [s EXCEPT !.matcher = Some([s.matcher[1] EXCEPT !.is_matched = ~@])]

matched(s) ==
    IF s.matcher = None THEN s
    ELSE [s EXCEPT !.matcher = Some([s.matcher[1] EXCEPT !.is_matched = TRUE])]

peek(s) == CharsNth(Stream(s), 0)

\* peek_second that yields the first character
peek_second_First(s) == CharsNth(Stream(s), 0)

peek_second(s) == CharsNth(Stream(s), 1)

peek_third(s) == CharsNth(Stream(s), 2)

peek_nth(s, n) == CharsNth(Stream(s), n)

\* Advance that does not count lines
Advance_NoLine(p, v) ==
    IF v = None THEN p
    ELSE [p EXCEPT !.chars = CharsAdvance(p.chars),
                   !.byte_pos = p.byte_pos + len_utf8(v[1])]

\* Advance with every character counted as one byte
Advance_OneByte(p, v) ==
    IF v = None THEN p
    ELSE IF v[1] = NL
         THEN [p EXCEPT !.chars = CharsAdvance(p.chars),
                        !.byte_pos = p.byte_pos + 1,
                        !.line = p.line + 1]
         ELSE [p EXCEPT !.chars = CharsAdvance(p.chars),
                        !.byte_pos = p.byte_pos + 1]

\* position fields after Chars::next yielded v
Advance(p, v) ==
    IF v = None THEN p
    ELSE IF v[1] = NL
         THEN [p EXCEPT !.chars = CharsAdvance(p.chars),
                        !.byte_pos = p.byte_pos + 1,
                        !.line = p.line + 1]
         ELSE [p EXCEPT !.chars = CharsAdvance(p.chars),
                        !.byte_pos = p.byte_pos + len_utf8(v[1])]

\* bump that always advances the cursor, session or not
bump_Cursor(s) == Advance(s, CharsNth(s.chars, 0))

\* bump: the scanner afterwards (it returns peek(s))
bump(s) ==
    IF s.matcher # None
    THEN [s EXCEPT !.matcher = Some(Advance(s.matcher[1], CharsNth(s.matcher[1].chars, 0)))]
    ELSE Advance(s, CharsNth(s.chars, 0))

Digits == {"0", "1", "2", "3", "4", "5", "6", "7", "8", "9"}

\* char::is_ascii_digit
is_ascii_digit(ch) == ch \in Digits

\* char::is_whitespace, on the characters the buffers use
is_whitespace(ch) == ch \in {" ", NL}

\* get_float's first then_peek closure: what follows the decimal point
FloatFrac(s) ==
    IF peek(s) # None /\ is_ascii_digit(peek(s)[1])
    THEN [s |-> bump(s), ok |-> TRUE]
    ELSE IF peek(s) # None /\ is_whitespace(peek(s)[1])
    THEN [s |-> matched(s), ok |-> TRUE]
    ELSE IF peek(s) = Some(";")
    THEN [s |-> matched(s), ok |-> TRUE]
    ELSE IF peek(s) # None
    THEN [s |-> s, ok |-> FALSE]
    ELSE [s |-> s, ok |-> TRUE]

\* get_float's last then_peek closure: the token ends at whitespace or the end
FloatEnd(s) ==
    IF peek(s) # None /\ is_whitespace(peek(s)[1])
    THEN [s |-> s, ok |-> TRUE]
    ELSE IF peek(s) = None
    THEN [s |-> s, ok |-> TRUE]
    ELSE [s |-> s, ok |-> FALSE]

\* a Fn(Self) -> bool closure called with a clone of the handle: the scanner
\* afterwards and the verdict
SelfPred(p, s) ==
    CASE p = "accept"         -> [s |-> s, ok |-> TRUE]
      [] p = "reject"         -> [s |-> s, ok |-> FALSE]
      [] p = "more"           -> [s |-> s, ok |-> peek(s) # None]
      [] p = "bump_accept"    -> [s |-> bump(s), ok |-> TRUE]
      [] p = "bump_reject"    -> [s |-> bump(s), ok |-> FALSE]
      [] p = "matched_accept" -> [s |-> matched(s), ok |-> TRUE]
      [] p = "matched_reject" -> [s |-> matched(s), ok |-> FALSE]
      [] p = "float_frac"     -> FloatFrac(s)
      [] p = "float_end"      -> FloatEnd(s)

----------------------------------------------------------------------------
(* Single-step combinators: the scanner afterwards and the number of times *)
(* the caller's predicate was invoked                                      *)

R(s, n) == [s |-> s, n |-> n]

\* match_char without the next_match early return
match_char_Unguarded(s, F) ==
    IF is_matched(s) THEN R(s, 0)
    ELSE IF peek(s) # None
         THEN IF peek(s)[1] \in F THEN R(bump(s), 1)
              ELSE R(set_next_match(s, FALSE), 1)
         ELSE R(s, 0)

match_char(s, F) ==
    IF is_matched(s) THEN R(s, 0)
    ELSE IF ~next_match(s) THEN R(s, 0)
    ELSE IF peek(s) # None
         THEN IF peek(s)[1] \in F THEN R(bump(s), 1)
              ELSE R(set_next_match(s, FALSE), 1)
         ELSE R(s, 0)

\* match_char_optional that fails the session like match_char
match_char_optional_Required(s, F) == match_char(s, F)

match_char_optional(s, F) ==
    IF is_matched(s) THEN R(s, 0)
    ELSE IF ~next_match(s) THEN R(s, 0)
    ELSE IF peek(s) # None
         THEN IF peek(s)[1] \in F THEN R(bump(s), 1) ELSE R(s, 1)
         ELSE R(s, 0)

\* then that does not fail the session
then_NoFail(s, ch) ==
    IF is_matched(s) THEN R(s, 0)
    ELSE IF ~next_match(s) THEN R(s, 0)
    ELSE IF peek(s) = Some(ch) THEN R(bump(s), 0)
    ELSE R(s, 0)

then(s, ch) ==
    IF is_matched(s) THEN R(s, 0)
    ELSE IF ~next_match(s) THEN R(s, 0)
    ELSE IF peek(s) = Some(ch) THEN R(bump(s), 0)
    ELSE R(set_next_match(s, FALSE), 0)

\* then_optional that fails the session like then
then_optional_Required(s, ch) == then(s, ch)

then_optional(s, ch) ==
    IF is_matched(s) THEN R(s, 0)
    ELSE IF ~next_match(s) THEN R(s, 0)
    ELSE IF peek(s) = Some(ch) THEN R(bump(s), 0)
    ELSE R(s, 0)

then_any(s, F) ==
    IF is_matched(s) THEN R(s, 0)
    ELSE IF ~next_match(s) THEN R(s, 0)
    ELSE IF peek(s) \in F THEN R(bump(s), 1)
    ELSE R(set_next_match(s, FALSE), 1)

\* then_peek whose predicate gets a detached copy of the scanner
then_peek_Detached(s, P) ==
    IF is_matched(s) THEN R(s, 0)
    ELSE IF ~next_match(s) THEN R(s, 0)
    ELSE IF SelfPred(P, s).ok THEN R(s, 1)
    ELSE R(set_next_match(s, FALSE), 1)

then_peek(s, P) ==
    IF is_matched(s) THEN R(s, 0)
    ELSE IF ~next_match(s) THEN R(s, 0)
    ELSE LET f == SelfPred(P, s)
         IN IF f.ok THEN R(f.s, 1) ELSE R(set_next_match(f.s, FALSE), 1)

then_any_optional(s, cs) ==
    IF is_matched(s) THEN R(s, 0)
    ELSE IF ~next_match(s) THEN R(s, 0)
    ELSE IF peek(s) # None /\ peek(s)[1] \in cs THEN R(bump(s), 0)
    ELSE R(s, 0)

----------------------------------------------------------------------------
(* MatchType and finalize *)

NewFlags == [consume_on_match |-> TRUE, consume_on_not_match |-> TRUE]

consume_on_match(kind, fl, v) ==
    IF kind = "All" THEN [fl EXCEPT !.consume_on_match = v] ELSE fl

\* consume_on_not_match writing the one flag whichever branch occurred
consume_on_not_match_Shared(kind, fl, v) ==
    IF kind = "Few" THEN [fl EXCEPT !.consume_on_not_match = v]
    ELSE [fl EXCEPT !.consume_on_match = v]

consume_on_not_match(kind, fl, v) ==
    IF kind = "Few" THEN [fl EXCEPT !.consume_on_not_match = v] ELSE fl

\* the classifier closure: it calls both setters with the values it chose
Classify(kind, cls) ==
    consume_on_not_match(kind, consume_on_match(kind, NewFlags, cls.com), cls.conm)

\* CopyFrom that leaves the cursor's byte offset behind
CopyFrom_NoBytes(s, m) == [s EXCEPT !.chars = m.chars, !.line = m.line]

\* CopyFrom that puts the cursor back at the start of the buffer
CopyFrom_Reset(s, m) == [s EXCEPT !.chars = 0, !.byte_pos = 0, !.line = 1]

CopyFrom(s, m) ==
    [s EXCEPT !.chars = m.chars, !.byte_pos = m.byte_pos, !.line = m.line]

\* take that leaves the session in place
take_Keep(s) == s

\* Option::take on the matcher cell: what is left in the scanner
take(s) == [s EXCEPT !.matcher = None]

\* commit only a match
Commit_OnlyOnMatch(success, fl) == success /\ fl.consume_on_match

\* commit whatever the classifier asked for
Commit_Always(success, fl) == TRUE

\* the commit decision: the flag of the branch that occurred
Commit(success, fl) ==
    IF success THEN fl.consume_on_match ELSE fl.consume_on_not_match

\* Ranges whose line range starts at the session's line
Ranges_SessionLine(s, m) ==
    [byte_pos |-> <<s.byte_pos, m.byte_pos>>, line_pos |-> <<m.line, m.line>>]

\* the byte range and the inclusive line range of the result
Ranges(s, m) ==
    [byte_pos |-> <<s.byte_pos, m.byte_pos>>, line_pos |-> <<s.line, m.line>>]

\* finalize: the scanner afterwards, the result, the number of classifier
\* calls, and whether the unwrap of the slice lookup panicked
finalize(s, cls) ==
    IF s.matcher = None
    THEN [s |-> s, ret |-> None, n |-> 0, panic |-> FALSE]
    ELSE
    LET m       == s.matcher[1]
        taken   == take(s)
        got     == StrGet(s.byte_pos, m.byte_pos)
        kind    == IF is_matched(taken) \/ m.match_next THEN "All" ELSE "Few"
        fl      == Classify(kind, cls)
        after   == IF Commit(is_matched(taken) \/ m.match_next, fl)
                   THEN CopyFrom(taken, m)
                   ELSE taken
    IN IF got = None
       THEN [s |-> taken, ret |-> None, n |-> 0, panic |-> TRUE]
       ELSE [s |-> after,
             ret |-> Some([kind |-> kind, value |-> got[1],
                           byte_pos |-> Ranges(s, m).byte_pos,
                           line_pos |-> Ranges(s, m).line_pos]),
             n |-> 1, panic |-> FALSE]

----------------------------------------------------------------------------
(* History bookkeeping *)

NoReplay == [expect |-> <<>>, got |-> <<>>]

\* the characters the session's iterator has yielded since it was cloned
Consumed(s) == SubSeq(whole, open[1].chars + 1, s.matcher[1].chars)

Apply(s) ==
    /\ chars' = s.chars
    /\ byte_pos' = s.byte_pos
    /\ line' = s.line
    /\ matcher' = s.matcher

Hist(o, a, r, n) ==
    /\ op' = o
    /\ arg' = a
    /\ pre' = SC
    /\ ret' = r
    /\ calls' = n

\* a call that returns at once: no loop is left running
Call(o, a, s, r, n) ==
    /\ pc = "idle"
    /\ Apply(s)
    /\ Hist(o, a, r, n)
    /\ iters' = 0
    /\ loop_rem' = 0
    /\ last' = IF o = "matcher" THEN last ELSE None
    /\ UNCHANGED <<whole, pc, lf>>

Combinator(o, a, r) ==
    /\ pc = "idle"
    /\ Call(o, a, r.s, None, r.n)
    /\ replay' = NoReplay
    /\ UNCHANGED open

----------------------------------------------------------------------------
(* Actions *)

Init ==
    /\ whole \in Buffers
    /\ chars = 0
    /\ byte_pos = 0
    /\ line = 1
    /\ matcher = None
    /\ pc = "idle"
    /\ lf = {}
    /\ op = "new"
    /\ arg = None
    /\ pre = [chars |-> 0, byte_pos |-> 0, line |-> 1, matcher |-> None]
    /\ ret = None
    /\ calls = 0
    /\ open = None
    /\ replay = NoReplay
    /\ iters = 0
    /\ loop_rem = 0
    /\ last = None

Matcher ==
    /\ Call("matcher", None, matcherOp(SC), None, 0)
    /\ open' = IF matcher = None
               THEN Some([chars |-> chars, byte_pos |-> byte_pos, line |-> line])
               ELSE open
    /\ replay' = NoReplay

Matched ==
    /\ Call("matched", None, matched(SC), None, 0)
    /\ replay' = NoReplay
    /\ UNCHANGED open

Peek ==
    /\ Call("peek", None, SC, peek(SC), 0)
    /\ UNCHANGED <<open, replay>>

PeekSecond ==
    /\ Call("peek_second", None, SC, peek_second(SC), 0)
    /\ UNCHANGED <<open, replay>>

PeekThird ==
    /\ Call("peek_third", None, SC, peek_third(SC), 0)
    /\ UNCHANGED <<open, replay>>

PeekNth ==
    \E n \in 0..MaxPeek :
        /\ Call("peek_nth", n, SC, peek_nth(SC, n), 0)
        /\ UNCHANGED <<open, replay>>

Bump ==
    /\ Call("bump", None, bump(SC), peek(SC), 0)
    /\ replay' = IF Len(replay.got) < Len(replay.expect)
                 THEN [replay EXCEPT !.got = Append(@, peek(SC))]
                 ELSE replay
    /\ UNCHANGED open

MatchChar == \E F \in CharPreds : Combinator("match_char", F, match_char(SC, F))

MatchCharOptional ==
    \E F \in CharPreds : Combinator("match_char_optional", F, match_char_optional(SC, F))

Then == \E ch \in ThenChars : Combinator("then", ch, then(SC, ch))

ThenOptional == \E ch \in ThenChars : Combinator("then_optional", ch, then_optional(SC, ch))

ThenAny == \E F \in AnyPreds : Combinator("then_any", F, then_any(SC, F))

ThenPeek == \E P \in SelfPreds : Combinator("then_peek", P, then_peek(SC, P))

ThenAnyOptional ==
    \E cs \in CharSets : Combinator("then_any_optional", cs, then_any_optional(SC, cs))

\* entry of a repetition combinator: the early returns, else the loop starts
LoopEntry(o, f) ==
    /\ pc = "idle"
    /\ Hist(o, f, None, 0)
    /\ iters' = 0
    /\ replay' = NoReplay
    /\ last' = None
    /\ IF is_matched(SC) \/ ~next_match(SC)
       THEN /\ loop_rem' = 0
            /\ UNCHANGED <<pc, lf>>
       ELSE /\ loop_rem' = Len(whole) - Stream(SC)
            /\ pc' = o
            /\ lf' = f
    /\ UNCHANGED <<whole, chars, byte_pos, line, matcher, open>>

SkeepWhile == \E F \in CharPreds : LoopEntry("skeep_while", F)

ConsumeWhile == \E F \in CharPreds : LoopEntry("consume_while", F)

PeekAndConsume == \E P \in SelfPreds : LoopEntry("peek_and_consume", P)

\* the name a loop iteration is recorded under
LoopOp ==
    CASE pc = "skeep_while"      -> "skeep_while_loop"
      [] pc = "consume_while"    -> "consume_while_loop"
      [] pc = "peek_and_consume" -> "peek_and_consume_loop"

\* one evaluation of the loop condition and, when it holds, the loop body
LoopIter(s, n, again) ==
    /\ Apply(s)
    /\ Hist(LoopOp, lf, None, n)
    /\ iters' = IF iters + n > Len(whole) + 2 THEN iters ELSE iters + n
    /\ pc' = IF again THEN pc ELSE "idle"
    /\ lf' = IF again THEN lf ELSE {}
    /\ last' = None
    /\ UNCHANGED <<whole, open, replay, loop_rem>>

SkeepWhileStep ==
    /\ pc = "skeep_while"
    /\ IF peek(SC) # None
       THEN IF peek(SC)[1] \in lf THEN LoopIter(bump(SC), 1, TRUE)
            ELSE LoopIter(SC, 1, FALSE)
       ELSE LoopIter(SC, 0, FALSE)

ConsumeWhileStep ==
    /\ pc = "consume_while"
    /\ IF peek(SC) # None
       THEN IF peek(SC)[1] \in lf THEN LoopIter(bump(SC), 1, TRUE)
            ELSE LoopIter(SC, 1, FALSE)
       ELSE LoopIter(SC, 0, FALSE)

PeekAndConsumeStep ==
    /\ pc = "peek_and_consume"
    /\ LET f == SelfPred(lf, SC)
       IN IF f.ok THEN LoopIter(bump(f.s), 1, TRUE) ELSE LoopIter(f.s, 1, FALSE)

Finalize ==
    \E cls \in Classifiers :
        LET r == finalize(SC, cls)
        IN /\ pc = "idle"
           /\ Apply(r.s)
           /\ Hist("finalize", cls, r.ret, r.n)
           /\ pc' = IF r.panic THEN "panic" ELSE "idle"
           /\ replay' = IF matcher = None THEN replay
                        ELSE IF r.s.chars = chars
                        THEN [expect |-> Consumed(SC), got |-> <<>>]
                        ELSE NoReplay
           /\ iters' = 0
           /\ loop_rem' = 0
           /\ last' = IF ret' = None THEN None
                      ELSE Some([kind |-> ret'[1].kind,
                                 is_matched |-> is_matched(SC),
                                 match_next |-> next_match(SC),
                                 committed |-> Commit(ret'[1].kind = "All",
                                                      Classify(ret'[1].kind, cls))])
           /\ UNCHANGED <<whole, lf, open>>

Next ==
    \/ Matcher
    \/ Matched
    \/ Peek
    \/ PeekSecond
    \/ PeekThird
    \/ PeekNth
    \/ Bump
    \/ SkeepWhile
    \/ MatchChar
    \/ MatchCharOptional
    \/ Then
    \/ ThenOptional
    \/ ThenAny
    \/ ThenPeek
    \/ ThenAnyOptional
    \/ PeekAndConsume
    \/ ConsumeWhile
    \/ SkeepWhileStep
    \/ ConsumeWhileStep
    \/ PeekAndConsumeStep
    \/ Finalize

Spec == Init /\ [][Next]_vars

----------------------------------------------------------------------------
(* The float tokenizer of tests/number.rs: get_float called in a row on one   *)
(* buffer.  op is the call of the chain that was made last, and ret collects  *)
(* the results of the finalize calls.                                         *)

\* "321.56fh"
Float1 == <<"3", "2", "1", ".", "5", "6", "f", "h">>

\* "765.32f "
Float2 == <<"7", "6", "5", ".", "3", "2", "f", " ">>

\* "  abc 123 def 321.56fh 765.32f xyz 33.44 bjh 55.3f"
Float3 ==
    <<" ", " ", "a", "b", "c", " ", "1", "2", "3", " ", "d", "e", "f", " ",
      "3", "2", "1", ".", "5", "6", "f", "h", " ", "7", "6", "5", ".", "3",
      "2", "f", " ", "x", "y", "z", " ", "3", "3", ".", "4", "4", " ", "b",
      "j", "h", " ", "5", "5", ".", "3", "f">>

FloatBuffers == {Float1, Float2, Float3}

\* the get_float calls the tests make on the buffer
FloatCalls == IF whole = Float3 THEN 5 ELSE 1

\* the characters !is_ascii_digit accepts
NonDigits == {whole[i] : i \in DOMAIN whole} \ Digits

\* the characters is_ascii_digit() || == '_' accepts
DigitsOrUnderscore == Digits \cup {"_"}

FloatInit ==
    /\ whole \in FloatBuffers
    /\ chars = 0
    /\ byte_pos = 0
    /\ line = 1
    /\ matcher = None
    /\ pc = "idle"
    /\ lf = {}
    /\ op = "new"
    /\ arg = None
    /\ pre = [chars |-> 0, byte_pos |-> 0, line |-> 1, matcher |-> None]
    /\ ret = <<>>
    /\ calls = 0
    /\ open = None
    /\ replay = NoReplay
    /\ iters = 0
    /\ loop_rem = 0
    /\ last = None

\* a single-step call of the chain, made after the call prev
FloatStep(prev, o, a, r) ==
    /\ pc = "idle"
    /\ op = prev
    /\ Apply(r.s)
    /\ Hist(o, a, ret, r.n)
    /\ UNCHANGED <<whole, pc, lf, open, replay, iters, loop_rem, last>>

\* a repetition combinator of the chain: the early returns, else the loop starts
FloatLoop(prev, o, loop, f) ==
    /\ pc = "idle"
    /\ op \in prev
    /\ op \in {"new", "finalize"} => Len(ret) < FloatCalls
    /\ Hist(o, f, ret, 0)
    /\ IF is_matched(SC) \/ ~next_match(SC)
       THEN UNCHANGED <<pc, lf>>
       ELSE pc' = loop /\ lf' = f
    /\ UNCHANGED <<whole, chars, byte_pos, line, matcher, open, replay, iters,
                   loop_rem, last>>

\* one iteration of skeep_while / consume_while
FloatLoopStep ==
    /\ pc \in {"skeep_while", "consume_while"}
    /\ IF peek(SC) # None /\ peek(SC)[1] \in lf
       THEN Apply(bump(SC)) /\ UNCHANGED <<pc, lf>>
       ELSE UNCHANGED <<chars, byte_pos, line, matcher>> /\ pc' = "idle" /\ lf' = {}
    /\ pre' = SC
    /\ UNCHANGED <<whole, op, arg, ret, calls, open, replay, iters, loop_rem, last>>

FloatSkeepWhile ==
    FloatLoop({"new", "finalize"}, "skeep_while", "skeep_while", NonDigits)

FloatMatcher ==
    /\ pc = "idle"
    /\ op = "skeep_while"
    /\ Apply(matcherOp(SC))
    /\ Hist("matcher", None, ret, 0)
    /\ open' = Some([chars |-> chars, byte_pos |-> byte_pos, line |-> line])
    /\ UNCHANGED <<whole, pc, lf, replay, iters, loop_rem, last>>

FloatThenAny ==
    FloatStep("matcher", "then_any", Digits, then_any(SC, {Some(d) : d \in Digits}))

FloatConsumeWhile1 ==
    FloatLoop({"then_any"}, "consume_while_1", "consume_while", DigitsOrUnderscore)

FloatThen == FloatStep("consume_while_1", "then", ".", then(SC, "."))

FloatThenPeek1 ==
    FloatStep("then", "then_peek_1", "float_frac", then_peek(SC, "float_frac"))

FloatConsumeWhile2 ==
    FloatLoop({"then_peek_1"}, "consume_while_2", "consume_while", DigitsOrUnderscore)

FloatThenOptional ==
    FloatStep("consume_while_2", "then_optional", "f", then_optional(SC, "f"))

FloatThenPeek2 ==
    FloatStep("then_optional", "then_peek_2", "float_end", then_peek(SC, "float_end"))

FloatFinalize ==
    LET r == finalize(SC, [com |-> TRUE, conm |-> TRUE])
    IN /\ pc = "idle"
       /\ op = "then_peek_2"
       /\ Apply(r.s)
       /\ Hist("finalize", None, ret \o r.ret, r.n)
       /\ UNCHANGED <<whole, pc, lf, open, replay, iters, loop_rem, last>>

FloatNext ==
    \/ FloatSkeepWhile
    \/ FloatMatcher
    \/ FloatThenAny
    \/ FloatConsumeWhile1
    \/ FloatThen
    \/ FloatThenPeek1
    \/ FloatConsumeWhile2
    \/ FloatThenOptional
    \/ FloatThenPeek2
    \/ FloatFinalize
    \/ FloatLoopStep

FloatSpec == FloatInit /\ [][FloatNext]_vars

----------------------------------------------------------------------------
(* Properties *)

PosOf(r) == <<r.chars, r.byte_pos, r.line>>

\* the last call was a finalize of an open session and it returned
Finalized == op = "finalize" /\ pre.matcher # None /\ ret # None

\* the classifier turned off the override of the branch that occurred
Overridden ==
    \/ ret[1].kind = "All" /\ ~arg.com
    \/ ret[1].kind = "Few" /\ ~arg.conm

CombinatorOps ==
    {"skeep_while", "match_char", "match_char_optional", "then", "then_optional",
     "then_any", "then_any_optional", "then_peek", "peek_and_consume",
     "consume_while"}

\* C1: finalize reports All exactly when the finalized session had is_matched
\* or match_next set, so a session marked matched() is All even after a
\* required combinator failed.
C1_ForceMatchWins ==
    Finalized =>
        (ret[1].kind = "All"
            <=> (pre.matcher[1].is_matched \/ pre.matcher[1].match_next))

\* C2: when the classifier turns off no override, finalize leaves the cursor at
\* the session's byte offset, line and read position, for All and for Few.
C2_DefaultCommit ==
    (Finalized /\ arg.com /\ arg.conm) => PosOf(SC) = PosOf(pre.matcher[1])

C2_Witness ==
    /\ Finalized /\ arg.com /\ arg.conm
    /\ ret[1].kind = "Few"
    /\ chars > pre.chars

\* C3: when the classifier turns off the override of the branch that occurred,
\* finalize leaves the cursor where it was when the session was opened, and the
\* bump calls that follow return the characters the session had consumed, in
\* order.
C3_ExplicitRollback ==
    /\ (Finalized /\ Overridden) => PosOf(SC) = PosOf(open[1])
    /\ \A i \in 1..Len(replay.got) : replay.got[i] = Some(replay.expect[i])

C3_Witness ==
    /\ op = "bump"
    /\ Len(replay.expect) = 2
    /\ Len(replay.got) = 2
    /\ chars = open[1].chars + 2

\* C4: the substring finalize hands to the classifier is the buffer from the
\* cursor's byte offset at session open to the session's byte offset at
\* finalize, which is exactly the characters the session consumed, for All and
\* for Few.
C4_SubstringExact ==
    Finalized =>
        /\ Some(ret[1].value) = StrGet(open[1].byte_pos, pre.matcher[1].byte_pos)
        /\ ret[1].value = SubSeq(whole, open[1].chars + 1, pre.matcher[1].chars)

C4_Witness ==
    /\ Finalized
    /\ ret[1].kind = "Few"
    /\ Len(ret[1].value) >= 2
    /\ \E i \in 1..Len(ret[1].value) : ret[1].value[i] = "U+00E9"

\* C5: a combinator called on a session whose match_next is false leaves the
\* session as it was, invokes no predicate and starts no loop.
C5_MonotonicFailure ==
    (op \in CombinatorOps /\ pre.matcher # None /\ ~pre.matcher[1].match_next)
        => (matcher = pre.matcher /\ calls = 0 /\ pc = "idle")

\* a failed session, and a then(ch) whose character is the upcoming one
C5_Witness ==
    /\ op = "then"
    /\ pre.matcher # None
    /\ ~pre.matcher[1].match_next
    /\ ~pre.matcher[1].is_matched
    /\ peek(SC) = Some(arg)

\* C6: while a session is open the cursor stays where it was when the session
\* was opened; only finalize moves the cursor of a scanner with a session.
C6_SessionIsolation ==
    /\ matcher # None => PosOf(SC) = PosOf(open[1])
    /\ (pre.matcher # None /\ op # "finalize") => PosOf(SC) = PosOf(pre)

C6_Witness ==
    /\ op = "bump"
    /\ matcher # None
    /\ matcher[1].chars = chars + 2
    /\ chars > 0

\* C7: a repetition combinator returns after at most one predicate call per
\* character that was left when it started, plus one that ends it.
C7_RepetitionReturns == iters <= loop_rem + 1

\* C8: matcher() on a scanner with an open session changes nothing.
C8_IdempotentOpen == (op = "matcher" /\ pre.matcher # None) => SC = pre

\* a session that has progressed and failed, then matcher() again
C8_Witness ==
    /\ op = "matcher"
    /\ pre.matcher # None
    /\ pre.matcher[1].chars > pre.chars
    /\ ~pre.matcher[1].match_next

\* C9: finalize never fails hard and is one-shot: without a session it returns
\* None, calls no classifier and leaves the cursor; with a session it returns
\* Some; either way no session is open afterwards.
C9_FinalizeOneShot ==
    op = "finalize" =>
        /\ pc = "idle"
        /\ matcher = None
        /\ IF pre.matcher = None
           THEN ret = None /\ calls = 0 /\ PosOf(SC) = PosOf(pre)
           ELSE ret # None /\ calls = 1

\* a finalize with no session, after a session that was committed
C9_Witness ==
    /\ op = "finalize"
    /\ pre.matcher = None
    /\ ret = None
    /\ open # None
    /\ chars > open[1].chars

\* C10: turning off the override of the branch that did not occur does not stop
\* the commit: the cursor is left at the session's position.
C10_WrongBranchNoOp ==
    (Finalized /\ ~Overridden /\ (~arg.com \/ ~arg.conm))
        => PosOf(SC) = PosOf(pre.matcher[1])

C10_Witness ==
    /\ Finalized
    /\ ret[1].kind = "All"
    /\ arg.com /\ ~arg.conm
    /\ chars > pre.chars

----------------------------------------------------------------------------
(* Properties of the combinators, the lookahead and the accounting *)

\* a session is open and not frozen
Live(s) == s.matcher # None /\ ~is_matched(s) /\ next_match(s)

\* the last call was made on a live session, which is still open
OnLive == Live(pre) /\ matcher # None

LoopOps == {"skeep_while_loop", "consume_while_loop", "peek_and_consume_loop"}

\* what finalize would hand to the classifier now
Pending == StrGet(byte_pos, matcher[1].byte_pos)

\* C11: a bump or matched() made by a then_peek or peek_and_consume predicate
\* through its handle acts on the live session: the session has advanced past
\* the character the predicate bumped, the slice finalize reports includes it,
\* and is_matched is set.
C11_SameSession ==
    /\ (op = "then_peek" /\ OnLive /\ arg \in {"bump_accept", "bump_reject"})
        => /\ matcher[1].chars = CharsAdvance(pre.matcher[1].chars)
           /\ Pending = Some(Consumed(pre) \o peek(pre))
    /\ (op = "then_peek" /\ OnLive /\ arg \in {"matched_accept", "matched_reject"})
        => matcher[1].is_matched
    /\ (op = "peek_and_consume_loop" /\ pre.matcher # None /\ arg = "bump_accept")
        => Pending = Some(Consumed(pre) \o peek(pre) \o peek_second(pre))
    /\ (op = "peek_and_consume_loop" /\ pre.matcher # None /\ arg = "matched_accept")
        => matcher[1].is_matched

\* a then_peek predicate bumps a character of a session that had consumed two
C11_Witness ==
    /\ op = "then_peek"
    /\ OnLive
    /\ arg = "bump_accept"
    /\ pre.matcher[1].chars = chars + 2
    /\ matcher[1].chars = chars + 3

\* the predicate of the last required combinator rejected the upcoming input
Rejected ==
    \/ op = "match_char" /\ peek(pre) # None /\ peek(pre)[1] \notin arg
    \/ op = "then" /\ peek(pre) # Some(arg)
    \/ op = "then_any" /\ peek(pre) \notin arg
    \/ op = "then_peek" /\ ~SelfPred(arg, pre).ok

\* C12 as stated: a required combinator whose predicate rejects sets
\* match_next=false and leaves the session position as it was.
C12_RequiredRejects ==
    (OnLive /\ Rejected)
        => (~matcher[1].match_next /\ PosOf(matcher[1]) = PosOf(pre.matcher[1]))

\* C12 amended: a required combinator whose predicate rejects sets
\* match_next=false; match_char, then and then_any leave the session position
\* as it was, and then_peek leaves it where its predicate left it, which is the
\* old position unless the predicate advanced the handle.
C12_RequiredRejectsAmended ==
    (OnLive /\ Rejected)
        => /\ ~matcher[1].match_next
           /\ PosOf(matcher[1]) =
                IF op = "then_peek" /\ arg = "bump_reject"
                THEN PosOf(Advance(pre.matcher[1], peek(pre)))
                ELSE PosOf(pre.matcher[1])

\* then('a') rejects an upcoming character of a session that had progressed
C12_Witness ==
    /\ op = "then"
    /\ OnLive
    /\ peek(pre) # None
    /\ peek(pre) # Some(arg)
    /\ matcher[1].chars > chars

OptionalOps == {"match_char_optional", "then_optional", "then_any_optional"}

\* the last optional combinator was given something that fits the next character
Fits ==
    /\ peek(pre) # None
    /\ IF op = "then_optional" THEN peek(pre)[1] = arg ELSE peek(pre)[1] \in arg

\* C13: an optional combinator never changes a flag of the session; on a live
\* session it consumes exactly the one fitting character, and otherwise (no
\* fit, end of input, frozen session) it leaves the position as it was.
C13_OptionalNeverFails ==
    (op \in OptionalOps /\ pre.matcher # None)
        => /\ matcher # None
           /\ matcher[1].match_next = pre.matcher[1].match_next
           /\ matcher[1].is_matched = pre.matcher[1].is_matched
           /\ PosOf(matcher[1]) =
                IF Live(pre) /\ Fits
                THEN <<pre.matcher[1].chars + 1,
                       pre.matcher[1].byte_pos + len_utf8(peek(pre)[1]),
                       pre.matcher[1].line + (IF peek(pre)[1] = NL THEN 1 ELSE 0)>>
                ELSE PosOf(pre.matcher[1])

\* match_char_optional does not fit the upcoming character of a live session
C13_Witness ==
    /\ op = "match_char_optional"
    /\ OnLive
    /\ peek(pre) # None
    /\ ~Fits
    /\ matcher[1].chars > chars

\* C14: the result of finalize carries the byte range from the cursor's byte
\* offset at session open to the session's at finalize, and the inclusive line
\* range from the cursor's line at open to the session's, committed or not.
C14_PositionTagged ==
    Finalized =>
        /\ ret[1].byte_pos = <<open[1].byte_pos, pre.matcher[1].byte_pos>>
        /\ ret[1].line_pos = <<open[1].line, pre.matcher[1].line>>

\* a rolled back finalize of a session opened after the start that crossed a line
C14_Witness ==
    /\ Finalized
    /\ Overridden
    /\ ret[1].byte_pos[1] > 0
    /\ ret[1].line_pos[2] > ret[1].line_pos[1]

RECURSIVE Newlines(_)
\* number of newline characters in a sequence of characters
Newlines(s) ==
    IF s = <<>> THEN 0
    ELSE (IF Head(s) = NL THEN 1 ELSE 0) + Newlines(Tail(s))

\* the position the last call read: the session's when one was open
Before == IF pre.matcher # None THEN pre.matcher[1] ELSE pre

After == IF matcher # None THEN matcher[1] ELSE SC

\* C15: a bump that returns a newline adds 1 to the line and 1 to the byte
\* offset, a bump that returns another character adds its encoded length to
\* the byte offset only, and a bump at the end changes nothing; so a byte
\* offset is the encoded length of what was consumed and a line is 1 plus the
\* newlines consumed.
C15_Accounting ==
    /\ op = "bump" =>
        IF ret = None THEN SC = pre
        ELSE /\ After.chars = Before.chars + 1
             /\ After.byte_pos = Before.byte_pos
                    + (IF ret[1] = NL THEN 1 ELSE len_utf8(ret[1]))
             /\ After.line = Before.line + (IF ret[1] = NL THEN 1 ELSE 0)
    /\ byte_pos = ByteLen(SubSeq(whole, 1, chars))
    /\ line = 1 + Newlines(SubSeq(whole, 1, chars))
    /\ matcher # None =>
        /\ matcher[1].byte_pos = ByteLen(SubSeq(whole, 1, matcher[1].chars))
        /\ matcher[1].line = 1 + Newlines(SubSeq(whole, 1, matcher[1].chars))

\* a bump returns a newline after two other characters
C15_Witness ==
    /\ op = "bump"
    /\ ret = Some(NL)
    /\ After.chars = 3
    /\ After.line = 2

PeekOps == {"peek", "peek_second", "peek_third", "peek_nth"}

\* how far ahead the last lookahead call looked
Ahead ==
    CASE op = "peek"        -> 0
      [] op = "peek_second" -> 1
      [] op = "peek_third"  -> 2
      [] op = "peek_nth"    -> arg

\* C16: a lookahead call changes nothing and returns the character that many
\* positions after the read position of the session, or of the cursor when no
\* session is open, and None past the end of the buffer.
C16_LookaheadPure ==
    op \in PeekOps =>
        /\ SC = pre
        /\ pc = "idle"
        /\ ret = IF Before.chars + Ahead + 1 <= Len(whole)
                 THEN Some(whole[Before.chars + Ahead + 1])
                 ELSE None

\* peek_second reads past a session that is one character ahead of the cursor
C16_Witness ==
    /\ op = "peek_second"
    /\ matcher # None
    /\ matcher[1].chars = chars + 1
    /\ ret # None

\* C18: no combinator call or loop iteration leaves a session that is marked
\* matched at another position than it found it, the call whose predicate
\* marked it included.
C18_FreezeOnMatched ==
    (op \in CombinatorOps \cup LoopOps /\ pre.matcher # None /\ matcher # None
        /\ matcher[1].is_matched)
        => PosOf(matcher[1]) = PosOf(pre.matcher[1])

\* C19: match_char and then on a live session at the end of input set
\* match_next=false and consume nothing.
C19_RequiredAtEnd ==
    (op \in {"match_char", "then"} /\ OnLive /\ peek(pre) = None)
        => (~matcher[1].match_next /\ PosOf(matcher[1]) = PosOf(pre.matcher[1]))

\* C20: while a session stays open, match_next never goes back to true and
\* is_matched never goes back to false.
C20_FlagsMonotonic ==
    (pre.matcher # None /\ matcher # None)
        => /\ ~pre.matcher[1].match_next => ~matcher[1].match_next
           /\ pre.matcher[1].is_matched => matcher[1].is_matched

\* matched() called on a session that is already matched and failed
C20_Witness ==
    /\ op = "matched"
    /\ pre.matcher # None
    /\ pre.matcher[1].is_matched
    /\ ~pre.matcher[1].match_next
    /\ matcher # None

----------------------------------------------------------------------------
(* The float tokenizer scenario, under FloatSpec *)

\* what the tests expect of each get_float call: matched or not, and the value
FloatExpected ==
    CASE whole = Float1 -> << <<"Few", <<"3", "2", "1", ".", "5", "6", "f">> >> >>
      [] whole = Float2 -> << <<"All", <<"7", "6", "5", ".", "3", "2", "f">> >> >>
      [] whole = Float3 ->
            << <<"Few", <<"1", "2", "3">> >>,
               <<"Few", <<"3", "2", "1", ".", "5", "6", "f">> >>,
               <<"All", <<"7", "6", "5", ".", "3", "2", "f">> >>,
               <<"All", <<"3", "3", ".", "4", "4">> >>,
               <<"All", <<"5", "5", ".", "3", "f">> >> >>

\* C17: get_float finalizes "321.56fh" as Few with "321.56f" and "765.32f " as
\* All with "765.32f", and successive calls on one buffer yield its tokens in
\* input order.
C17_FloatScenario ==
    /\ Len(ret) <= Len(FloatExpected)
    /\ \A i \in 1..Len(ret) : <<ret[i].kind, ret[i].value>> = FloatExpected[i]
    /\ \A i \in 1..(Len(ret) - 1) : ret[i].byte_pos[2] <= ret[i + 1].byte_pos[1]

\* all five tokens of the long buffer have been returned
C17_Witness ==
    /\ whole = Float3
    /\ op = "finalize"
    /\ Len(ret) = 5

----------------------------------------------------------------------------
(* Properties of the scanner across sessions and without one *)

\* C21: matcher() on a scanner with no session leaves the cursor and opens a
\* session at the cursor's read position, byte offset and line with
\* match_next=true and is_matched=false, however the previous session ended.
C21_FreshSession ==
    (op = "matcher" /\ pre.matcher = None)
        => /\ PosOf(SC) = PosOf(pre)
           /\ matcher = Some([chars |-> pre.chars, byte_pos |-> pre.byte_pos,
                              line |-> pre.line, is_matched |-> FALSE,
                              match_next |-> TRUE])

\* matcher() after a session opened past the start of the buffer that had
\* failed, was marked matched and was rolled back
C21_Witness ==
    /\ op = "matcher"
    /\ pre.matcher = None
    /\ last # None
    /\ last[1].is_matched
    /\ ~last[1].match_next
    /\ ~last[1].committed
    /\ byte_pos > 0

\* C22: the cursor's and the session's byte offsets are the buffer offsets of
\* their own read positions, hence character boundaries, and cursor offset <=
\* session offset <= buffer length; so the slice finalize looks up exists and
\* its unwrap never panics.
C22_SliceTotal ==
    /\ pc # "panic"
    /\ byte_pos = ByteOff(chars)
    /\ byte_pos <= ByteLen(whole)
    /\ matcher # None =>
        /\ matcher[1].byte_pos = ByteOff(matcher[1].chars)
        /\ byte_pos <= matcher[1].byte_pos
        /\ matcher[1].byte_pos <= ByteLen(whole)
        /\ Pending # None
    /\ (op = "finalize" /\ pre.matcher # None) => ret # None

\* finalize of a session opened past a two-byte character that consumed another
\* character
C22_Witness ==
    /\ Finalized
    /\ pre.byte_pos > pre.chars
    /\ ret[1].byte_pos[1] = pre.byte_pos
    /\ ret[1].byte_pos[2] > pre.byte_pos

\* the predicate of the last required combinator accepted the upcoming input
Accepted ==
    \/ op = "match_char" /\ peek(pre) # None /\ peek(pre)[1] \in arg
    \/ op = "then" /\ peek(pre) = Some(arg)
    \/ op = "then_any" /\ peek(pre) \in arg

\* the last call was made with no session open
NoSession == pre.matcher = None

\* with no session: nothing is frozen, no call but matcher() opens a session,
\* an accepting required combinator advances the cursor by the upcoming
\* character, and matcher() starts a session that has neither flag against it
Unfrozen ==
    /\ matcher = None => (~is_matched(SC) /\ next_match(SC))
    /\ (NoSession /\ op \in CombinatorOps \cup LoopOps \cup {"matched", "bump"})
        => matcher = None
    /\ (NoSession /\ op = "matched") => SC = pre
    /\ (NoSession /\ Accepted) => PosOf(SC) = PosOf(Advance(pre, peek(pre)))
    /\ (NoSession /\ op = "matcher")
        => (matcher[1].match_next /\ ~matcher[1].is_matched)

\* C23 as stated: with no session nothing is frozen, combinators act on the
\* cursor, and a required combinator whose predicate rejects leaves the cursor
\* where it was and records no failure.
C23_NoSessionNoFreeze ==
    /\ Unfrozen
    /\ (NoSession /\ Rejected) => PosOf(SC) = PosOf(pre)

\* C23 amended: with no session nothing is frozen, combinators act on the
\* cursor, and a required combinator whose predicate rejects records no
\* failure; match_char, then and then_any leave the cursor where it was, and
\* then_peek leaves it where its predicate left it, which is the old position
\* unless the predicate advanced the handle.
C23_NoSessionNoFreezeAmended ==
    /\ Unfrozen
    /\ (NoSession /\ Rejected) =>
        PosOf(SC) = IF op = "then_peek" /\ arg = "bump_reject"
                    THEN PosOf(Advance(pre, peek(pre)))
                    ELSE PosOf(pre)

\* then rejects the upcoming character of a cursor that had advanced with no
\* session
C23_Witness ==
    /\ op = "then"
    /\ NoSession
    /\ matcher = None
    /\ peek(pre) # None
    /\ peek(pre) # Some(arg)
    /\ chars > 0

\* C24: no call moves the cursor's read position, byte offset or line
\* backwards, and an open session is never behind the cursor.
C24_NoRewind ==
    /\ chars >= pre.chars
    /\ byte_pos >= pre.byte_pos
    /\ line >= pre.line
    /\ matcher # None =>
        /\ matcher[1].chars >= chars
        /\ matcher[1].byte_pos >= byte_pos
        /\ matcher[1].line >= line

\* a finalize commits a session that crossed a line, opened by a cursor that
\* had already advanced
C24_Witness ==
    /\ Finalized
    /\ pre.chars > 0
    /\ byte_pos > pre.byte_pos
    /\ line > pre.line

====
